---- MODULE Spec2Model ----
(***************************************************************************)
(* Model of pkg_fetcher: one invocation of main() and of the run() it      *)
(* calls (src/pkg_fetcher/__main__.py), driving SSHSession (sshsession.py) *)
(* and RemoteDebFetcher (remote_deb_fetcher.py).  The remote host and the   *)
(* local file system are the environment: every ssh.exec either raises     *)
(* (ToolError "Remote command failed") or returns an exit status and       *)
(* output chosen by the host.                                              *)
(*   Spec        main() from its first statement to the process's exit     *)
(*   SpecRun     run() from its entry to its return                        *)
(*   SpecCleanup cleanup_dir called repeatedly on one scratch directory    *)
(***************************************************************************)
EXTENDS Integers, Sequences, FiniteSets, TLC

\* ------------------------------------------------------------------ bounds
MaxUris  == 2   \* longest URI list print-uris returns
MaxPkgs  == 2   \* longest package list an expansion returns
MaxCleanups == 3   \* most consecutive calls of cleanup_dir on one directory

\* ------------------------------------------------------------------ inputs
Methods  == {"auto", "uris", "rdepends"}
Packages == {"curl", "libssl3"}
URIs     == {"http://m/pool/curl.deb", "http://m/pool/README"}
Target   == "curl"          \* the package argument of run()
\* Optional[List[str]]: <<>> is None, <<l>> is the list l
None     == <<>>
Some(l)  == <<l>>
\* the skip_packages arguments main() passes: None, or the non-empty list
\* args.skips.split(","); tried with one name and with two
SkipChoices == {None, Some(<<"libssl3">>), Some(<<"libssl3", "curl">>)}

RECURSIVE SeqsUpTo(_, _)
SeqsUpTo(S, n) ==
    IF n = 0 THEN {<<>>}
    ELSE LET shorter == SeqsUpTo(S, n - 1)
         IN  shorter \cup {Append(s, x) : s \in {t \in shorter : Len(t) = n - 1}, x \in S}

Range(s) == {s[i] : i \in 1..Len(s)}

\* os.path.basename of a URI (remote_deb_fetcher.py:134; wget -P names the
\* file the same way)
Basename(u) ==
    CASE u = "http://m/pool/curl.deb" -> "curl.deb"
      [] u = "http://m/pool/README"   -> "README"
      [] u = "/tmp/debfetch/curl.deb" -> "curl.deb"
      [] u = "/tmp/debfetch/curl_8.5_amd64.deb"    -> "curl_8.5_amd64.deb"
      [] u = "/tmp/debfetch/libssl3_3.0_amd64.deb" -> "libssl3_3.0_amd64.deb"
      [] OTHER -> u

\* the archive `apt-get download p` writes into the current directory
DebOfPkg(p) ==
    CASE p = "curl"    -> "curl_8.5_amd64.deb"
      [] p = "libssl3" -> "libssl3_3.0_amd64.deb"

\* find ... -name '*.deb'
IsDeb(f) == f \in {"curl.deb", "curl_8.5_amd64.deb", "libssl3_3.0_amd64.deb"}

\* absolute path printed by find for a file of the scratch directory
RemotePath(f) ==
    CASE f = "curl.deb"              -> "/tmp/debfetch/curl.deb"
      [] f = "curl_8.5_amd64.deb"    -> "/tmp/debfetch/curl_8.5_amd64.deb"
      [] f = "libssl3_3.0_amd64.deb" -> "/tmp/debfetch/libssl3_3.0_amd64.deb"
      [] OTHER -> f

\* ---------------------------------------------------------------- messages
\* A message is a sequence of text pieces; an f-string concatenates them.
MsgExec        == <<"Remote command failed">>
MsgAuth        == <<"Authentication failed. Please verify credentials or keys.">>
MsgConn        == <<"SSH connection error">>
MsgSftpOpen    == <<"Failed to open SFTP channel">>
MsgNoApt       == <<"Remote host does not have apt-get.">>
MsgMktemp      == <<"Failed to create remote temp directory.">>
MsgPrintUris   == <<"Failed to compute URIs via apt-get --print-uris.">>
MsgNoUris      == <<"No URIs from print-uris; falling back.">>
MsgSkipPrimary == <<"Skip print-uris per method selection.">>
MsgEmptyUris   == <<"Empty URI list; nothing to download.">>
MsgNoDownloader == <<"Neither wget nor curl found on remote host.">>
MsgDlUris      == <<"Failed to download one or more .deb files via URIs.">>
MsgRdepends    == <<"apt-rdepends failed to compute dependencies.">>
MsgAptCache    == <<"apt-cache depends failed to compute dependencies.">>
MsgEmptyExp    == <<"Dependency expansion returned empty list.">>
MsgEmptyPkgs   == <<"Empty package list; nothing to download.">>
MsgDlPkgs      == <<"apt-get download failed for one or more packages.">>
MsgList        == <<"Failed to enumerate downloaded .deb files.">>
MsgNoDebs      == <<"No .deb files found after download. Aborting.">>
MsgSftpGet     == <<"SFTP get failed">>
MsgInterrupt   == <<"KeyboardInterrupt">>
MsgOutNotDir   == <<"Output path exists and is not a directory.">>
MsgOutNotEmpty == <<"Output directory is not empty.">>
MsgOutCreate   == <<"Failed to create output directory">>
MsgUnlink      == <<"unlink failed">>
MsgUserInterrupt == <<"Interrupted by user.">>

ToolError(m) == [type |-> "ToolError", msg |-> m]
OtherError(m) == [type |-> "Exception", msg |-> m]
KeyboardInterrupt == [type |-> "KeyboardInterrupt", msg |-> MsgInterrupt]
NoExc == [type |-> "none", msg |-> <<>>]

\* ------------------------------------------------------------------- state
VARIABLES
    method, skip_packages, yes,          \* arguments of run()
    pc, exc, outcome,                    \* position, pending exception, result of run()
    raised,                              \* history: every exception raised, in order
    clientConnected, sftp, closeCalls,   \* SSHSession
    scratchExists, scratch,              \* the remote scratch directory and its files
    remote_dir, uris, pkgs, deb_files,   \* locals of run()
    copied,                              \* local files written by sftp_get, in order
    used_strategy, primary_err,
    tmpl,                                \* download_uris: the chosen command template
    calls,                               \* history: operations invoked, with the list passed
    cmds,                                \* history: remote commands and the host's replies
    warns,                               \* history: warnings printed
    outDir,                              \* main(): the local output directory
    archive,                             \* main(): the .tar.xz next to it
    exit_code,                           \* main(): the process's exit code, -1 while it runs
    errs                                 \* history: messages printed by err()

inputs == <<method, skip_packages, yes>>
ctl    == <<pc, exc, outcome, raised>>
sess   == <<clientConnected, sftp, closeCalls>>
remote == <<scratchExists, scratch>>
locals == <<remote_dir, uris, pkgs, deb_files, copied, used_strategy, primary_err, tmpl>>
hist   == <<calls, cmds, warns>>
mainv  == <<outDir, archive, exit_code, errs>>
vars   == <<inputs, ctl, sess, remote, locals, hist, mainv>>

Init ==
    /\ method \in Methods
    /\ skip_packages \in SkipChoices
    /\ yes \in BOOLEAN
    /\ pc = "ensure_out_dir" /\ exc = NoExc /\ outcome = "running" /\ raised = <<>>
    /\ clientConnected = FALSE /\ sftp = FALSE /\ closeCalls = 0
    /\ scratchExists = FALSE /\ scratch = {}
    /\ remote_dir = "" /\ uris = <<>> /\ pkgs = <<>> /\ deb_files = <<>> /\ copied = <<>>
    /\ used_strategy = "" /\ primary_err = <<>> /\ tmpl = ""
    /\ calls = <<>> /\ cmds = <<>> /\ warns = <<>>
    /\ outDir = "absent" /\ archive = "absent" /\ exit_code = -1 /\ errs = <<>>

\* control transfer --------------------------------------------------------
Goto(l)     == pc' = l /\ UNCHANGED <<exc, outcome, raised>>
\* raise e; l is the clause that receives it
Raise(l, e) ==
    /\ pc' = l
    /\ exc' = e
    /\ raised' = Append(raised, [to |-> l, msg |-> e.msg])
    /\ UNCHANGED outcome
\* an exception leaving run() with no enclosing try (lines 36-40)
Escape(e)   ==
    /\ pc' = "returned"
    /\ exc' = e
    /\ raised' = Append(raised, [to |-> "returned", msg |-> e.msg])
    /\ outcome' = e.type
\* fetcher / session operation op invoked with the list arg
Call(op, arg)   == calls' = Append(calls, [op |-> op, arg |-> arg])
\* ssh.exec of command c; the host replies res ("raise": exec raised) and the lines out
Exec(c, res, out) == cmds' = Append(cmds, [cmd |-> c, res |-> res, out |-> out])

\* files the first k commands of a `set -e` download loop leave behind
UriFiles(us, k)  == {Basename(us[i]) : i \in 1..k}
PkgFiles(ps, k)  == {DebOfPkg(ps[i]) : i \in 1..k}

\* ------------------------------------------------------- main(), entry
\* an exception no clause of main() handles: traceback, exit code 1
Uncaught(e) ==
    /\ pc' = "exited"
    /\ exc' = e
    /\ raised' = Append(raised, [to |-> "exit", msg |-> e.msg])
    /\ exit_code' = 1
    /\ UNCHANGED <<outcome, errs>>

\* out_dir = ensure_out_dir(...), the statement before main()'s try block; the
\* state of the local path is found out here
EnsureOutDir ==
    /\ pc = "ensure_out_dir"
    /\ \/ /\ outDir' = "foreign"                  \* exists, not a directory
          /\ Uncaught(ToolError(MsgOutNotDir))
       \/ /\ outDir' = "foreign"                  \* exists, not empty
          /\ Uncaught(ToolError(MsgOutNotEmpty))
       \/ /\ outDir' = "absent"                   \* mkdir raised
          /\ Uncaught(ToolError(MsgOutCreate))
       \/ /\ outDir' = "present"                  \* empty directory, found or created
          /\ Goto("connect")
          /\ UNCHANGED <<exit_code, errs>>
    /\ UNCHANGED <<inputs, sess, remote, locals, hist, archive>>

\* ------------------------------------------------- SSHSession.connect/close
\* first client.connect, look_for_keys=True
ConnectKey ==
    /\ pc = "connect"
    /\ \/ /\ clientConnected' = TRUE
          /\ Goto("open_sftp")
          /\ UNCHANGED warns
       \/ /\ warns' = Append(warns, "Key-based auth failed.")   \* AuthenticationException
          /\ Goto("password")
          /\ UNCHANGED clientConnected
       \/ /\ Escape(ToolError(MsgConn))                          \* any other exception
          /\ UNCHANGED <<clientConnected, warns>>
    /\ UNCHANGED <<inputs, mainv, sftp, closeCalls, remote, locals, calls, cmds>>

\* password prompt and second client.connect, inside the except clause
ConnectPassword ==
    /\ pc = "password"
    /\ \/ /\ clientConnected' = TRUE
          /\ Goto("open_sftp")
       \/ /\ Escape(ToolError(MsgAuth))                          \* AuthenticationException
          /\ UNCHANGED clientConnected
       \/ /\ Escape(OtherError(MsgConn))   \* not caught: raised inside the except clause
          /\ UNCHANGED clientConnected
    /\ UNCHANGED <<inputs, mainv, sftp, closeCalls, remote, locals, hist>>

OpenSftp ==
    /\ pc = "open_sftp"
    /\ \/ /\ sftp' = TRUE
          /\ Goto("assert_apt_host")
       \/ /\ Escape(ToolError(MsgSftpOpen))
          /\ UNCHANGED sftp
    /\ UNCHANGED <<inputs, mainv, clientConnected, closeCalls, remote, locals, hist>>

\* the finally clause of run(): ssh.close() closes the SFTP channel, then the client
Close ==
    /\ pc = "finally"
    /\ closeCalls' = closeCalls + 1
    /\ sftp' = FALSE
    /\ clientConnected' = FALSE
    /\ pc' = "returned"
    /\ outcome' = IF exc = NoExc THEN "ok" ELSE exc.type
    /\ UNCHANGED <<inputs, mainv, exc, raised, remote, locals, hist>>

\* -------------------------------------------------- probe and scratch dir
\* faulty variant: the probe's output is never looked at
AptPresent_Always(out) == TRUE

\* `res.stdout.strip() != "0"` raises
AptPresent(out) == out = "0"

\* command -v apt-get >/dev/null 2>&1; echo $?   (the reply is the status printed)
AssertAptHost ==
    /\ pc = "assert_apt_host"
    /\ Call("assert_apt_host", <<>>)
    /\ \/ /\ Exec("command -v apt-get", "raise", <<>>)
          /\ Raise("finally", ToolError(MsgExec))
       \/ \E out \in {"0", "1"} :
            /\ Exec("command -v apt-get", out, <<>>)
            /\ IF AptPresent(out)
               THEN Goto("mktemp_dir")
               ELSE Raise("finally", ToolError(MsgNoApt))
    /\ UNCHANGED <<inputs, mainv, sess, remote, locals, warns>>

MktempDir ==
    /\ pc = "mktemp_dir"
    /\ Call("mktemp_dir", <<>>)
    /\ \/ /\ Exec("mktemp -d", "raise", <<>>)         \* the command may have run
          /\ Raise("finally", ToolError(MsgExec))
          /\ scratchExists' \in BOOLEAN
          /\ UNCHANGED remote_dir
       \/ /\ Exec("mktemp -d", "1", <<>>)
          /\ Raise("finally", ToolError(MsgMktemp))
          /\ UNCHANGED <<scratchExists, remote_dir>>
       \/ /\ Exec("mktemp -d", "0", <<"/tmp/debfetch">>)
          /\ Goto("primary")
          /\ scratchExists' = TRUE
          /\ remote_dir' = "/tmp/debfetch"
    /\ UNCHANGED <<inputs, mainv, sess, scratch, uris, pkgs, deb_files, copied, used_strategy,
                   primary_err, tmpl, warns>>

\* ------------------------------------------------ strategy 1: print-uris
\* faulty variant: the method selection is not honoured
UsesPrimary_Always(m) == TRUE

\* `if method in ("auto", "uris")`
UsesPrimary(m) == m \in {"auto", "uris"}

SkipPrimary ==
    /\ pc = "primary"
    /\ ~UsesPrimary(method)
    /\ Raise("except_primary", ToolError(MsgSkipPrimary))
    /\ UNCHANGED <<inputs, mainv, sess, remote, locals, hist>>

\* faulty variant: without the flag an empty result is an error, not a warning
PrintUrisReturn_AbortWithoutYes(us, y) ==
    [raises |-> us = <<>> /\ ~y, uris |-> us, warn |-> us = <<>> /\ ~y]

\* compute_uris_via_apt_print after exit status 0, the lines us parsed, self.yes = y:
\* `if not uris and not self.yes: warn(...)`, then `return uris`
PrintUrisReturn(us, y) ==
    [raises |-> FALSE, uris |-> us, warn |-> us = <<>> /\ ~y]

ComputeUris ==
    /\ pc = "primary"
    /\ UsesPrimary(method)
    /\ Call("compute_uris_via_apt_print", <<Target>>)
    /\ \/ /\ Exec("apt-get --print-uris", "raise", <<>>)
          /\ Raise("except_primary", ToolError(MsgExec))
          /\ UNCHANGED <<uris, warns>>
       \/ /\ Exec("apt-get --print-uris", "1", <<>>)
          /\ Raise("except_primary", ToolError(MsgPrintUris))
          /\ UNCHANGED <<uris, warns>>
       \/ \E us \in SeqsUpTo(URIs, MaxUris) :
            LET r == PrintUrisReturn(us, yes) IN
            /\ Exec("apt-get --print-uris", "0", us)
            /\ warns' = IF r.warn
                        THEN Append(warns, "No URIs returned by print-uris.")
                        ELSE warns
            /\ IF r.raises
               THEN Raise("except_primary", ToolError(MsgNoUris)) /\ UNCHANGED uris
               ELSE uris' = r.uris /\ Goto("check_uris")
    /\ UNCHANGED <<inputs, mainv, sess, remote, remote_dir, pkgs, deb_files, copied,
                   used_strategy, primary_err, tmpl>>

\* `if not uris and method == "auto": raise`
FallBackOnEmpty(us, m) == us = <<>> /\ m = "auto"

EmptyUris ==
    /\ pc = "check_uris"
    /\ FallBackOnEmpty(uris, method)
    /\ Raise("except_primary", ToolError(MsgNoUris))
    /\ UNCHANGED <<inputs, mainv, sess, remote, locals, hist>>

\* faulty variant: an empty list is let through to the download loop
EmptyInput_Never(l) == FALSE

\* `if not uris: raise` / `if not pkgs: raise`, the first statement of
\* download_uris and of download_packages
EmptyInput(l) == l = <<>>

DownloadUris ==
    /\ pc = "check_uris"
    /\ ~FallBackOnEmpty(uris, method)
    /\ Call("download_uris", uris)
    /\ IF EmptyInput(uris)
       THEN Raise("except_primary", ToolError(MsgEmptyUris))
       ELSE Goto("choose_wget")
    /\ UNCHANGED <<inputs, mainv, sess, remote, locals, cmds, warns>>

ChooseWget ==
    /\ pc = "choose_wget"
    /\ \/ /\ Exec("command -v wget", "raise", <<>>)
          /\ Raise("except_primary", ToolError(MsgExec))
          /\ UNCHANGED tmpl
       \/ /\ Exec("command -v wget", "0", <<>>)
          /\ tmpl' = "wget"
          /\ Goto("fetch_uris")
       \/ /\ Exec("command -v wget", "1", <<>>)
          /\ Goto("choose_curl")
          /\ UNCHANGED tmpl
    /\ UNCHANGED <<inputs, mainv, sess, remote, remote_dir, uris, pkgs, deb_files, copied,
                   used_strategy, primary_err, calls, warns>>

ChooseCurl ==
    /\ pc = "choose_curl"
    /\ \/ /\ Exec("command -v curl", "raise", <<>>)
          /\ Raise("except_primary", ToolError(MsgExec))
          /\ UNCHANGED tmpl
       \/ /\ Exec("command -v curl", "0", <<>>)
          /\ tmpl' = "curl"
          /\ Goto("fetch_uris")
       \/ /\ Exec("command -v curl", "1", <<>>)
          /\ Raise("except_primary", ToolError(MsgNoDownloader))
          /\ UNCHANGED tmpl
    /\ UNCHANGED <<inputs, mainv, sess, remote, remote_dir, uris, pkgs, deb_files, copied,
                   used_strategy, primary_err, calls, warns>>

\* the `set -e` loop of download commands, one exec
FetchUris ==
    /\ pc = "fetch_uris"
    /\ \/ \E k \in 0..Len(uris) :
            /\ Exec("download uris", "raise", <<>>)
            /\ scratch' = scratch \cup UriFiles(uris, k)
            /\ Raise("except_primary", ToolError(MsgExec))
            /\ UNCHANGED used_strategy
       \/ \E k \in 0..(Len(uris) - 1) :
            /\ Exec("download uris", "1", <<>>)
            /\ scratch' = scratch \cup UriFiles(uris, k)
            /\ Raise("except_primary", ToolError(MsgDlUris))
            /\ UNCHANGED used_strategy
       \/ /\ Exec("download uris", "0", <<>>)
          /\ scratch' = scratch \cup UriFiles(uris, Len(uris))
          /\ used_strategy' = "print-uris"
          /\ Goto("list_debs")
    /\ UNCHANGED <<inputs, mainv, sess, scratchExists, remote_dir, uris, pkgs, deb_files,
                   copied, primary_err, tmpl, calls, warns>>

\* faulty variant: the handler falls back in every mode
Reraises_Never(m) == FALSE

\* `if method == "uris": raise`
Reraises(m) == m = "uris"

\* `except Exception as primary_err`
ExceptPrimary ==
    /\ pc = "except_primary"
    /\ IF Reraises(method)
       THEN /\ pc' = "finally"
            /\ UNCHANGED <<exc, outcome, raised, primary_err, warns>>
       ELSE /\ primary_err' = exc.msg
            /\ warns' = Append(warns, "Primary strategy failed")
            /\ pc' = "ensure_apt_rdepends"
            /\ exc' = NoExc
            /\ UNCHANGED <<outcome, raised>>
    /\ UNCHANGED <<inputs, mainv, sess, remote, remote_dir, uris, pkgs, deb_files, copied,
                   used_strategy, tmpl, calls, cmds>>

\* --------------------------------- strategies 2/3: expansion, then download
\* faulty variant: the probe's exit status is not looked at
HasRdepends_Always(status) == TRUE

\* ensure_apt_rdepends: `.exit_status == 0`
HasRdepends(status) == status = "0"

\* `if fetcher.ensure_apt_rdepends(): ... else: warn(...)`
EnsureAptRdepends ==
    /\ pc = "ensure_apt_rdepends"
    /\ Call("ensure_apt_rdepends", <<>>)
    /\ \/ /\ Exec("command -v apt-rdepends", "raise", <<>>)
          /\ Raise("except_secondary", ToolError(MsgExec))
          /\ UNCHANGED warns
       \/ \E status \in {"0", "1"} :
            /\ Exec("command -v apt-rdepends", status, <<>>)
            /\ IF HasRdepends(status)
               THEN /\ Goto("compute_rdepends")
                    /\ UNCHANGED warns
               ELSE /\ Goto("compute_apt_cache")
                    /\ warns' = Append(warns, "apt-rdepends not found.")
    /\ UNCHANGED <<inputs, mainv, sess, remote, locals>>

\* apt-rdepends -p <pkg> | grep -v '^ ': the lines the host prints
RdependsOutputs == SeqsUpTo(Packages, MaxPkgs)

ComputeRdepends ==
    /\ pc = "compute_rdepends"
    /\ Call("compute_packages_via_rdepends", <<Target>>)
    /\ \/ /\ Exec("apt-rdepends", "raise", <<>>)
          /\ Raise("except_secondary", ToolError(MsgExec))
          /\ UNCHANGED pkgs
       \/ /\ Exec("apt-rdepends", "1", <<>>)
          /\ Raise("except_secondary", ToolError(MsgRdepends))
          /\ UNCHANGED pkgs
       \/ \E ps \in RdependsOutputs :
            /\ Exec("apt-rdepends", "0", ps)
            /\ pkgs' = ps
            /\ Goto("filter")
    /\ UNCHANGED <<inputs, mainv, sess, remote, remote_dir, uris, deb_files, copied,
                   used_strategy, primary_err, tmpl, warns>>

PkgRank(p) == CASE p = "curl" -> 1 [] p = "libssl3" -> 2

\* apt-cache depends ... | cat <(echo <pkg>) - | awk 'NF' | sort -u:
\* sorted, without duplicates, the target package among them
AptCacheOutputs ==
    {ps \in SeqsUpTo(Packages, MaxPkgs) :
        /\ Target \in Range(ps)
        /\ \A i \in 1..(Len(ps) - 1) : PkgRank(ps[i]) < PkgRank(ps[i + 1])}

ComputeAptCache ==
    /\ pc = "compute_apt_cache"
    /\ Call("compute_packages_via_apt_cache", <<Target>>)
    /\ \/ /\ Exec("apt-cache depends", "raise", <<>>)
          /\ Raise("except_secondary", ToolError(MsgExec))
          /\ UNCHANGED pkgs
       \/ /\ Exec("apt-cache depends", "1", <<>>)
          /\ Raise("except_secondary", ToolError(MsgAptCache))
          /\ UNCHANGED pkgs
       \/ \E ps \in AptCacheOutputs :
            /\ Exec("apt-cache depends", "0", ps)
            /\ pkgs' = ps
            /\ Goto("filter")
    /\ UNCHANGED <<inputs, mainv, sess, remote, remote_dir, uris, deb_files, copied,
                   used_strategy, primary_err, tmpl, warns>>

\* faulty variant: the skip list is ignored
ApplySkips_Ignored(ps, skips) == ps

\* `if skip_packages: pkgs = [p for p in pkgs if p not in skip_packages]`
ApplySkips(ps, skips) ==
    IF skips # None /\ skips[1] # <<>>
    THEN SelectSeq(ps, LAMBDA p : p \notin Range(skips[1]))
    ELSE ps

\* run() lines 72-77
Filter ==
    /\ pc = "filter"
    /\ IF pkgs = <<>>
       THEN /\ Raise("except_secondary", ToolError(MsgEmptyExp))
            /\ UNCHANGED pkgs
       ELSE /\ pkgs' = ApplySkips(pkgs, skip_packages)
            /\ Goto("download_packages")
    /\ UNCHANGED <<inputs, mainv, sess, remote, remote_dir, uris, deb_files, copied,
                   used_strategy, primary_err, tmpl, hist>>

\* `set -e; cd <dir>; for p in ...; do apt-get download "$p"; done`, one exec;
\* an empty list raises before any command
DownloadPackages ==
    /\ pc = "download_packages"
    /\ Call("download_packages", pkgs)
    /\ IF EmptyInput(pkgs)
       THEN /\ Raise("except_secondary", ToolError(MsgEmptyPkgs))
            /\ UNCHANGED <<cmds, scratch, used_strategy>>
       ELSE \/ \E k \in 0..Len(pkgs) :
                 /\ Exec("apt-get download", "raise", <<>>)
                 /\ scratch' = scratch \cup PkgFiles(pkgs, k)
                 /\ Raise("except_secondary", ToolError(MsgExec))
                 /\ UNCHANGED used_strategy
            \/ \E k \in 0..(Len(pkgs) - 1) :
                 /\ Exec("apt-get download", "1", <<>>)
                 /\ scratch' = scratch \cup PkgFiles(pkgs, k)
                 /\ Raise("except_secondary", ToolError(MsgDlPkgs))
                 /\ UNCHANGED used_strategy
            \/ /\ Exec("apt-get download", "0", <<>>)
               /\ scratch' = scratch \cup PkgFiles(pkgs, Len(pkgs))
               /\ used_strategy' = "apt-(r)depends + apt-get download"
               /\ Goto("list_debs")
    /\ UNCHANGED <<inputs, mainv, sess, scratchExists, remote_dir, uris, pkgs, deb_files,
                   copied, primary_err, tmpl, warns>>

\* faulty variant: the primary failure is dropped from the message
Combined_SecondaryOnly(primary, secondary) ==
    <<"Both strategies failed. Secondary: ">> \o secondary

\* f"Both strategies failed. Primary: {primary_err} | Secondary: {secondary_err}"
Combined(primary, secondary) ==
    <<"Both strategies failed. Primary: ">> \o primary \o <<" | Secondary: ">> \o secondary

\* `except Exception as secondary_err`
ExceptSecondary ==
    /\ pc = "except_secondary"
    /\ Raise("finally", ToolError(Combined(primary_err, exc.msg)))
    /\ UNCHANGED <<inputs, mainv, sess, remote, locals, hist>>

\* ------------------------------------------------ transfer and cleanup
FileOrder == <<"curl.deb", "curl_8.5_amd64.deb", "libssl3_3.0_amd64.deb">>

\* the lines find prints for the files of S, in directory order
FindDebs(S) ==
    LET names == SelectSeq(FileOrder, LAMBDA f : f \in S /\ IsDeb(f))
    IN  [i \in 1..Len(names) |-> RemotePath(names[i])]

\* faulty variant: the empty enumeration is not checked
NoArtifacts_Never(files) == FALSE

\* `if not deb_files: raise`
NoArtifacts(files) == files = <<>>

\* faulty variant: the loop is left before the list is exhausted
AfterGet_Early(n, files) == "cleanup_dir"

\* `for rp in deb_files`: with n files copied, the loop goes on or is left
AfterGet(n, files) == IF n < Len(files) THEN "transfer" ELSE "cleanup_dir"

ListDebs ==
    /\ pc = "list_debs"
    /\ Call("list_debs", <<remote_dir>>)
    /\ \/ /\ Exec("find", "raise", <<>>)
          /\ Raise("finally", ToolError(MsgExec))
          /\ UNCHANGED deb_files
       \/ /\ Exec("find", "1", <<>>)
          /\ Raise("finally", ToolError(MsgList))
          /\ UNCHANGED deb_files
       \/ /\ Exec("find", "0", FindDebs(scratch))
          /\ deb_files' = FindDebs(scratch)
          /\ IF NoArtifacts(FindDebs(scratch))
             THEN Raise("finally", ToolError(MsgNoDebs))
             ELSE Goto(AfterGet(0, FindDebs(scratch)))
    /\ UNCHANGED <<inputs, mainv, sess, remote, remote_dir, uris, pkgs, copied, used_strategy,
                   primary_err, tmpl, warns>>

\* one iteration of the loop: ssh.sftp_get(rp, out_dir / Path(rp).name)
Transfer ==
    /\ pc = "transfer"
    /\ LET rp == deb_files[Len(copied) + 1] IN
       /\ Call("sftp_get", <<rp>>)
       /\ \/ /\ copied' = Append(copied, Basename(rp))
             /\ Goto(AfterGet(Len(copied) + 1, deb_files))
          \/ /\ Raise("finally", ToolError(MsgSftpGet \o <<rp>>))
             /\ UNCHANGED copied
    /\ UNCHANGED <<inputs, mainv, sess, remote, remote_dir, uris, pkgs, deb_files,
                   used_strategy, primary_err, tmpl, cmds, warns>>

\* faulty variant: a non-zero exit status of rm is turned into an error
CleanupRaises_OnStatus(res) == res # "0"

\* `_ = self.ssh.exec(...)`: the exit status is ignored
CleanupRaises(res) == FALSE

\* cleanup_dir(remote_dir): rm -rf <dir>, one exec; `after` is where the caller goes on
CleanupDirCall(after) ==
    /\ Call("cleanup_dir", <<remote_dir>>)
    /\ \/ /\ Exec("rm -rf", "raise", <<>>)            \* the command may have run
          /\ Raise("finally", ToolError(MsgExec))
          /\ \/ UNCHANGED remote
             \/ scratchExists' = FALSE /\ scratch' = {}
       \/ /\ Exec("rm -rf", "0", <<>>)
          /\ IF CleanupRaises("0") THEN Raise("finally", ToolError(MsgExec)) ELSE Goto(after)
          /\ scratchExists' = FALSE /\ scratch' = {}
       \/ /\ Exec("rm -rf", "1", <<>>)
          /\ IF CleanupRaises("1") THEN Raise("finally", ToolError(MsgExec)) ELSE Goto(after)
          /\ UNCHANGED remote
    /\ UNCHANGED <<inputs, mainv, sess, locals, warns>>

\* run() line 100
CleanupDir ==
    /\ pc = "cleanup_dir"
    /\ CleanupDirCall("finally")

\* ------------------------------------------------------------ interrupt
Connecting == {"connect", "password", "open_sftp"}
InTry == {"assert_apt_host", "mktemp_dir", "primary", "check_uris", "choose_wget",
          "choose_curl", "fetch_uris", "except_primary", "ensure_apt_rdepends",
          "compute_rdepends", "compute_apt_cache", "filter", "download_packages",
          "except_secondary", "list_debs", "transfer", "cleanup_dir"}

\* KeyboardInterrupt is no Exception: neither except clause of run() catches it
Interrupt ==
    /\ \/ /\ pc \in Connecting
          /\ Escape(KeyboardInterrupt)
       \/ /\ pc \in InTry
          /\ Raise("finally", KeyboardInterrupt)
    /\ UNCHANGED <<inputs, mainv, sess, remote, locals, hist>>

\* ------------------------------------------------------- main(), exit
\* run() raised: the except clauses of main(), then `finally: shutil.rmtree(out_dir)`
MainExcept ==
    /\ pc = "returned"
    /\ outcome # "ok"
    /\ \/ /\ outcome = "ToolError"
          /\ errs' = Append(errs, exc.msg)
          /\ exit_code' = 2
       \/ /\ outcome = "KeyboardInterrupt"
          /\ errs' = Append(errs, MsgUserInterrupt)
          /\ exit_code' = 130
       \/ /\ outcome = "Exception"               \* no clause: traceback
          /\ exit_code' = 1
          /\ UNCHANGED errs
    /\ outDir' = "absent"
    /\ pc' = "exited"
    /\ UNCHANGED <<inputs, exc, outcome, raised, sess, remote, locals, hist, archive>>

\* run() returned: archive_output_dir(out_dir), then the finally clause; the archive
\* is "complete" when the tar file holds the directory's files.  The warning that
\* an older archive is overwritten is recorded only where the overwrite fails.
ArchiveOutputDir ==
    /\ pc = "returned"
    /\ outcome = "ok"
    /\ pc' = "exited"
    /\ outDir' = "absent"
    /\ \/ /\ archive' = "complete"
          /\ exit_code' = 0
          /\ UNCHANGED <<exc, raised, errs, warns>>
       \/ /\ archive' \in {"absent", "partial"}  \* tarfile raised: warning only
          /\ warns' = Append(warns, "Failed to create archive")
          /\ exit_code' = 0
          /\ UNCHANGED <<exc, raised, errs>>
       \/ /\ archive' = "stale"                  \* tar_path.unlink() raised, uncaught
          /\ warns' = Append(warns, "Archive already exists. Overwriting.")
          /\ exc' = OtherError(MsgUnlink)
          /\ raised' = Append(raised, [to |-> "exit", msg |-> MsgUnlink])
          /\ exit_code' = 1
          /\ UNCHANGED errs
       \/ /\ archive' \in {"absent", "partial"}  \* interrupted while archiving
          /\ exc' = KeyboardInterrupt
          /\ raised' = Append(raised, [to |-> "main", msg |-> MsgInterrupt])
          /\ errs' = Append(errs, MsgUserInterrupt)
          /\ exit_code' = 130
          /\ UNCHANGED warns
    /\ UNCHANGED <<inputs, outcome, sess, remote, locals, calls, cmds>>

Next ==
    \/ EnsureOutDir
    \/ MainExcept \/ ArchiveOutputDir
    \/ ConnectKey \/ ConnectPassword \/ OpenSftp
    \/ AssertAptHost \/ MktempDir
    \/ SkipPrimary \/ ComputeUris \/ EmptyUris \/ DownloadUris
    \/ ChooseWget \/ ChooseCurl \/ FetchUris
    \/ ExceptPrimary
    \/ EnsureAptRdepends \/ ComputeRdepends \/ ComputeAptCache
    \/ Filter \/ DownloadPackages
    \/ ExceptSecondary
    \/ ListDebs \/ Transfer \/ CleanupDir
    \/ Close
    \/ Interrupt

Spec == Init /\ [][Next]_vars

\* ---------------------------------------------------------- run() on its own
\* run() entered with its arguments, out_dir an empty directory (line 36)
InitRun ==
    /\ method \in Methods
    /\ skip_packages \in SkipChoices
    /\ yes \in BOOLEAN
    /\ pc = "connect" /\ exc = NoExc /\ outcome = "running" /\ raised = <<>>
    /\ clientConnected = FALSE /\ sftp = FALSE /\ closeCalls = 0
    /\ scratchExists = FALSE /\ scratch = {}
    /\ remote_dir = "" /\ uris = <<>> /\ pkgs = <<>> /\ deb_files = <<>> /\ copied = <<>>
    /\ used_strategy = "" /\ primary_err = <<>> /\ tmpl = ""
    /\ calls = <<>> /\ cmds = <<>> /\ warns = <<>>
    /\ outDir = "present" /\ archive = "absent" /\ exit_code = -1 /\ errs = <<>>

\* the steps of run(), from ssh.connect() to its return or the exception leaving it
NextRun ==
    \/ ConnectKey \/ ConnectPassword \/ OpenSftp
    \/ AssertAptHost \/ MktempDir
    \/ SkipPrimary \/ ComputeUris \/ EmptyUris \/ DownloadUris
    \/ ChooseWget \/ ChooseCurl \/ FetchUris
    \/ ExceptPrimary
    \/ EnsureAptRdepends \/ ComputeRdepends \/ ComputeAptCache
    \/ Filter \/ DownloadPackages
    \/ ExceptSecondary
    \/ ListDebs \/ Transfer \/ CleanupDir
    \/ Close
    \/ Interrupt

SpecRun == InitRun /\ [][NextRun]_vars

\* ===================================================================== claims
Ops            == {calls[i].op : i \in 1..Len(calls)}
Returned       == pc = "returned"
Exited         == pc = "exited"
ExpansionOps   == {"ensure_apt_rdepends", "compute_packages_via_rdepends",
                   "compute_packages_via_apt_cache", "download_packages"}
\* the client connected at some point of the run (close() disconnects it)
SessionOpened  == clientConnected \/ closeCalls > 0
\* the command c was issued and the host replied r
Replied(c, r)  == \E i \in 1..Len(cmds) : cmds[i].cmd = c /\ cmds[i].res = r
\* part occurs in msg as a contiguous run of pieces
Contains(msg, part) ==
    \E i \in 0..(Len(msg) - Len(part)) : SubSeq(msg, i + 1, i + Len(part)) = part
\* some exception was delivered to the clause l
RaisedTo(l)    == \E i \in 1..Len(raised) : raised[i].to = l
NumCalls(op)   == Len(SelectSeq(calls, LAMBDA c : c.op = op))

\* C1: a run that opened the session and ended normally or with a ToolError has
\* closed the session exactly once.
C1_SessionClosedOnce ==
    (Returned /\ SessionOpened /\ outcome \in {"ok", "ToolError"}) => closeCalls = 1

\* C2: in automatic mode, once print-uris has returned a non-empty list, no
\* operation of the expansion strategy is invoked.
C2_NoExpansionAfterUris ==
    (method = "auto" /\ uris # <<>>) => Ops \cap ExpansionOps = {}

\* C3: a batch download that exits non-zero, or finding neither wget nor curl, is
\* fatal: it is the last remote command of the run, no expansion operation and no
\* download follows it, and the run does not succeed.
FatalDownloadReply(r) ==
    \/ r.cmd \in {"download uris", "apt-get download"} /\ r.res = "1"
    \/ r.cmd = "command -v curl" /\ r.res = "1"

C3_DownloadFailureFatal ==
    \A i \in 1..Len(cmds) :
        FatalDownloadReply(cmds[i]) =>
            /\ i = Len(cmds)
            /\ (calls[Len(calls)].op \in {"download_uris", "download_packages"})
            /\ (Returned => outcome # "ok")

\* C4 as stated: cleanup_dir is issued if and only if the run succeeds; a failed
\* run that created the scratch directory never issued it and left the directory.
C4_CleanupIffSuccess ==
    Returned =>
        /\ ("cleanup_dir" \in Ops) <=> (outcome = "ok")
        /\ (outcome # "ok" /\ remote_dir # "") => scratchExists

\* all enumerated archives were retrieved, in order, under their base names
AllRetrieved ==
    /\ deb_files # <<>>
    /\ Len(copied) = Len(deb_files)
    /\ \A i \in 1..Len(deb_files) : copied[i] = Basename(deb_files[i])

\* C4 (amended): cleanup_dir is issued at most once, as the last operation, and
\* only after every enumerated archive was retrieved; a successful run issued it
\* exactly once; a run that fails before the cleanup step never issues it and its
\* scratch directory stays; after cleanup was issued the only failure of run() is
\* the cleanup command itself raising in ssh.exec.
C4_CleanupOnSuccessPath ==
    /\ NumCalls("cleanup_dir") <= 1
    /\ "cleanup_dir" \in Ops =>
          /\ AllRetrieved
          /\ calls[Len(calls)].op = "cleanup_dir"
          /\ cmds[Len(cmds)].cmd = "rm -rf"
          /\ (exc # NoExc /\ ~Exited) =>
                (exc = ToolError(MsgExec) /\ cmds[Len(cmds)].res = "raise")
    /\ (Returned /\ outcome = "ok") => NumCalls("cleanup_dir") = 1
    /\ (remote_dir # "" /\ "cleanup_dir" \notin Ops) => scratchExists

C4_Witness ==
    /\ Returned /\ outcome = "ok"
    /\ NumCalls("cleanup_dir") = 1
    /\ Len(copied) = 2
    /\ ~scratchExists

\* print-uris failed as a command / returned an empty list
PrintUrisFailed == Replied("apt-get --print-uris", "raise") \/ Replied("apt-get --print-uris", "1")
PrintUrisEmpty  == Replied("apt-get --print-uris", "0") /\ uris = <<>>

\* C5: automatic mode, the URI strategy failed (command failure or empty result)
\* and the expansion strategy failed too: the run ends with one ToolError whose
\* message contains the primary and the secondary failure's message.
C5_CombinedError ==
    (/\ Returned /\ method = "auto"
     /\ PrintUrisFailed \/ PrintUrisEmpty
     /\ RaisedTo("except_secondary")
     /\ outcome # "KeyboardInterrupt")
    =>
        /\ outcome = "ToolError"
        /\ Cardinality({i \in 1..Len(raised) : raised[i].to = "finally"}) = 1
        /\ \E i, j \in 1..Len(raised) :
              /\ raised[i].to = "except_primary"
              /\ raised[j].to = "except_secondary"
              /\ Contains(exc.msg, raised[i].msg)
              /\ Contains(exc.msg, raised[j].msg)

C5_Witness ==
    /\ Returned /\ method = "auto" /\ outcome = "ToolError"
    /\ PrintUrisEmpty
    /\ \E j \in 1..Len(raised) :
          raised[j].to = "except_secondary" /\ raised[j].msg = MsgDlPkgs

\* C6: forced-uri mode: no expansion operation is ever invoked; when print-uris
\* fails or returns nothing, no further remote command is issued, nothing is
\* enumerated, transferred or cleaned up, the scratch directory stays and the
\* run does not succeed.
C6_ForcedUris ==
    method = "uris" =>
        /\ Ops \cap ExpansionOps = {}
        /\ (PrintUrisFailed \/ PrintUrisEmpty) =>
              /\ cmds[Len(cmds)].cmd = "apt-get --print-uris"
              /\ Ops \cap {"list_debs", "sftp_get", "cleanup_dir"} = {}
              /\ scratchExists
              /\ Returned => outcome \in {"ToolError", "KeyboardInterrupt"}

C6_Witness ==
    /\ Returned /\ method = "uris" /\ outcome = "ToolError"
    /\ PrintUrisEmpty
    /\ exc.msg = MsgEmptyUris

\* C7: forced-expansion mode: the URI strategy is never invoked (no call, no
\* command of it), a successful run used the expansion strategy, and a failure
\* of the expansion strategy makes the run fail.
C7_ForcedExpansion ==
    method = "rdepends" =>
        /\ Ops \cap {"compute_uris_via_apt_print", "download_uris"} = {}
        /\ \A i \in 1..Len(cmds) :
              cmds[i].cmd \notin {"apt-get --print-uris", "command -v wget",
                                  "command -v curl", "download uris"}
        /\ (Returned /\ outcome = "ok") =>
              /\ used_strategy = "apt-(r)depends + apt-get download"
              /\ "download_packages" \in Ops
        /\ (Returned /\ RaisedTo("except_secondary")) =>
              outcome \in {"ToolError", "KeyboardInterrupt"}

C7_Witness ==
    /\ Returned /\ method = "rdepends" /\ outcome = "ToolError"
    /\ "compute_packages_via_apt_cache" \in Ops
    /\ Replied("apt-cache depends", "1")

\* C8: assert_apt_host is the first remote operation, runs once, and when it fails
\* (no apt-get, or the probe command raising) nothing else is invoked: no scratch
\* directory, no strategy, no download; the session is closed and the run failed.
C8_ProbeFirst ==
    /\ calls # <<>> => calls[1].op = "assert_apt_host"
    /\ cmds # <<>> => cmds[1].cmd = "command -v apt-get"
    /\ NumCalls("assert_apt_host") <= 1
    /\ (cmds # <<>> /\ cmds[1].res # "0") =>
          /\ Len(calls) = 1 /\ Len(cmds) = 1
          /\ ~scratchExists /\ remote_dir = ""
          /\ pc \in {"finally", "returned", "exited"}
          /\ exc.type = "ToolError"
          /\ Returned => (closeCalls = 1 /\ outcome = "ToolError")

C8_Witness ==
    /\ Returned /\ Replied("command -v apt-get", "1")
    /\ exc.msg = MsgNoApt /\ closeCalls = 1

\* C9: when the enumeration after a successful download is empty the run fails
\* with the no-artifacts error and transfers nothing; a successful run has
\* transferred at least one file.
C9_NoArtifacts ==
    /\ (Replied("find", "0") /\ deb_files = <<>>) =>
          /\ pc \in {"finally", "returned", "exited"}
          /\ exc = ToolError(MsgNoDebs)
          /\ copied = <<>> /\ "sftp_get" \notin Ops
          /\ Returned => outcome = "ToolError"
    /\ (Returned /\ outcome = "ok") => Len(copied) >= 1

C9_Witness ==
    /\ Returned /\ Replied("download uris", "0") /\ Replied("find", "0")
    /\ deb_files = <<>> /\ exc.msg = MsgNoDebs

\* ps without the elements of ex, order kept
RECURSIVE Without(_, _)
Without(ps, ex) ==
    IF ps = <<>> THEN <<>>
    ELSE (IF Head(ps) \in ex THEN <<>> ELSE <<Head(ps)>>) \o Without(Tail(ps), ex)

Excludes == IF skip_packages = None THEN {} ELSE Range(skip_packages[1])
ExpansionReply(r) == r.cmd \in {"apt-rdepends", "apt-cache depends"} /\ r.res = "0"
PrintReply(r)     == r.cmd = "apt-get --print-uris" /\ r.res = "0"

\* C10: the list passed to download_packages is the expansion's output without
\* the excluded names, in order; the list passed to download_uris is the list
\* print-uris returned, whatever the exclusion list.
C10_Exclusion ==
    \A i \in 1..Len(calls) :
        /\ calls[i].op = "download_packages" =>
              \E j \in 1..Len(cmds) :
                  ExpansionReply(cmds[j]) /\ calls[i].arg = Without(cmds[j].out, Excludes)
        /\ calls[i].op = "download_uris" =>
              \E j \in 1..Len(cmds) :
                  PrintReply(cmds[j]) /\ calls[i].arg = cmds[j].out

C10_Witness ==
    /\ Excludes # {}
    /\ \E i \in 1..Len(calls), j \in 1..Len(cmds) :
          /\ calls[i].op = "download_packages" /\ ExpansionReply(cmds[j])
          /\ calls[i].arg # <<>>
          /\ Len(calls[i].arg) < Len(cmds[j].out)

\* --------------------------------------------- cleanup_dir, called repeatedly
\* a connected session and a scratch directory in any state, cleanup_dir about
\* to be called on it
InitCleanup ==
    /\ method = "auto" /\ skip_packages = None /\ yes = TRUE
    /\ pc = "cleanup_again" /\ exc = NoExc /\ outcome = "running" /\ raised = <<>>
    /\ clientConnected = TRUE /\ sftp = TRUE /\ closeCalls = 0
    /\ scratchExists \in BOOLEAN
    /\ scratch \in (IF scratchExists THEN SUBSET (Range(FileOrder) \cup {"README"}) ELSE {{}})
    /\ remote_dir = "/tmp/debfetch"
    /\ uris = <<>> /\ pkgs = <<>> /\ deb_files = <<>> /\ copied = <<>>
    /\ used_strategy = "" /\ primary_err = <<>> /\ tmpl = ""
    /\ calls = <<>> /\ cmds = <<>> /\ warns = <<>>
    /\ outDir = "present" /\ archive = "absent" /\ exit_code = -1 /\ errs = <<>>

CleanupAgain ==
    /\ pc = "cleanup_again"
    /\ Len(calls) < MaxCleanups
    /\ CleanupDirCall("cleanup_again")

NextCleanup == CleanupAgain

SpecCleanup == InitCleanup /\ [][NextCleanup]_vars

LocalFiles == IF outDir = "present" THEN Range(copied) ELSE {}

\* C11: the process exits with 0 exactly when the invocation succeeded, with 2
\* whenever a ToolError ended it (one raised while the output directory is
\* prepared included), with 130 on an interrupt, and every non-zero exit has
\* printed one error message.
C11_ExitCodes ==
    Exited =>
        /\ exit_code = 0 <=> (outcome = "ok" /\ exc = NoExc)
        /\ exc.type = "ToolError" => exit_code = 2
        /\ exc.type = "KeyboardInterrupt" => exit_code = 130
        /\ exit_code # 0 => Len(errs) = 1

\* C12: when the process has exited with 0, the local output directory holds
\* one file per archive enumerated in the scratch directory, under its base
\* name.
C12_OutputDirHoldsFiles ==
    (Exited /\ exit_code = 0) =>
        /\ outDir = "present"
        /\ LocalFiles = {Basename(deb_files[i]) : i \in 1..Len(deb_files)}

\* C13: a process that was interrupted after the remote session was opened
\* has attempted to close the session before it exited.
C13_CloseOnInterrupt ==
    (Exited /\ exc = KeyboardInterrupt /\ SessionOpened) => closeCalls >= 1

\* ------------------------------------------------------- empty resolutions
CalledWith(op, arg) == \E i \in 1..Len(calls) : calls[i].op = op /\ calls[i].arg = arg
Issued(c)           == \E i \in 1..Len(cmds) : cmds[i].cmd = c

\* C14: download_uris and download_packages called with an empty list issue no
\* remote command, are the last operation of the run and fail it; an expansion
\* that printed nothing never reaches download_packages, enumeration or
\* transfer; and a file is transferred only after a download step was given a
\* non-empty list and its batch exited 0.
C14_EmptyNeverSuccess ==
    /\ \A i \in 1..Len(calls) :
          /\ (calls[i].op = "download_uris" /\ calls[i].arg = <<>>) =>
                /\ ~Issued("command -v wget") /\ ~Issued("command -v curl")
                /\ ~Issued("download uris")
                /\ i = Len(calls) /\ outcome # "ok"
          /\ (calls[i].op = "download_packages" /\ calls[i].arg = <<>>) =>
                /\ ~Issued("apt-get download")
                /\ i = Len(calls) /\ outcome # "ok"
          /\ calls[i].op \in {"download_packages", "list_debs", "sftp_get"} =>
                ~\E j \in 1..Len(cmds) : ExpansionReply(cmds[j]) /\ cmds[j].out = <<>>
          /\ calls[i].op = "sftp_get" =>
                \/ Replied("download uris", "0") /\ uris # <<>>
                \/ Replied("apt-get download", "0") /\ pkgs # <<>>

\* an expansion list emptied by the exclusion list was handed to download_packages
C14_Witness ==
    /\ Returned /\ outcome = "ToolError"
    /\ CalledWith("download_packages", <<>>)
    /\ \E i \in 1..Len(cmds) : ExpansionReply(cmds[i]) /\ cmds[i].out # <<>>

\* ------------------------------------------------ strategy-level failures
\* C16: outside automatic mode no 'primary strategy failed' warning is printed
\* and no failure is caught to be followed by a fallback attempt.
C16_WarnOnlyInAuto ==
    method # "auto" =>
        /\ "Primary strategy failed" \notin Range(warns)
        /\ primary_err = <<>>

Probe == "command -v apt-rdepends"
LastReply(c, r) == cmds # <<>> /\ cmds[Len(cmds)].cmd = c /\ cmds[Len(cmds)].res = r

\* C17: the rdepends form is invoked only in runs whose probe reported the
\* tool present, the apt-cache form only in runs whose probe reported it
\* absent; the probe is made once, so never both forms in one run; and the
\* probe reporting absence raises nothing.
C17_ProbeChoosesForm ==
    /\ \A i \in 1..Len(calls) :
          /\ calls[i].op = "compute_packages_via_rdepends" =>
                Replied(Probe, "0") /\ ~Replied(Probe, "1")
          /\ calls[i].op = "compute_packages_via_apt_cache" =>
                Replied(Probe, "1") /\ ~Replied(Probe, "0")
          /\ calls[i].op = "ensure_apt_rdepends" =>
                \A j \in 1..Len(calls) : calls[j].op = "ensure_apt_rdepends" => j = i
    /\ LastReply(Probe, "1") => exc \in {NoExc, KeyboardInterrupt}

\* a run that succeeded through the apt-cache form
C17_Witness ==
    /\ Returned /\ outcome = "ok"
    /\ Replied(Probe, "1")
    /\ "compute_packages_via_apt_cache" \in Ops
    /\ "compute_packages_via_rdepends" \notin Ops

\* ------------------------------------------------ what a successful run delivers
\* the archives the download step of the strategy reported as used wrote
WrittenByUsed ==
    IF used_strategy = "print-uris"
    THEN {f \in UriFiles(uris, Len(uris)) : IsDeb(f)}
    ELSE {f \in PkgFiles(pkgs, Len(pkgs)) : IsDeb(f)}

\* C18: the files a successful run transferred are exactly the archives written
\* by the download step of the strategy it reports as used.
C18_OnlyUsedStrategyFiles ==
    (Returned /\ outcome = "ok") => Range(copied) = WrittenByUsed

\* C19: after exit code 0 the artifacts are on the local machine, in the
\* complete bundle or in the output directory.
C19_ArtifactsPersist ==
    (Exited /\ exit_code = 0) => (archive = "complete" \/ outDir = "present")

IsCombined(e) ==
    e.type = "ToolError" /\ e.msg # <<>> /\ Head(e.msg) = "Both strategies failed. Primary: "

\* C20: the combined error is raised only in runs that attempted both the URI
\* strategy and the expansion strategy, and never in forced-expansion mode.
C20_CombinedOnlyAfterBoth ==
    IsCombined(exc) =>
        /\ "compute_uris_via_apt_print" \in Ops
        /\ Ops \cap ExpansionOps # {}
        /\ method # "rdepends"

\* ------------------------------------------------------- the auto-confirm flag
\* what the caller of compute_uris_via_apt_print sees of its return
Ctl(r) == [raises |-> r.raises, uris |-> r.uris]
MsgWarnNoUris == "No URIs returned by print-uris."
\* this step is print-uris answering with exit status 0
PrintUrisAnswers ==
    /\ pc = "primary" /\ Len(cmds') = Len(cmds) + 1
    /\ PrintReply(cmds'[Len(cmds')])

====
